---- MODULE Spec2Model ----
(***************************************************************************)
(* Model of libs/datasets/kinetics.py, class Kinetics: construction of the *)
(* manifest arrays and the per-item retrieval (__getitem__): sampling      *)
(* descriptor, bounded retry loop with replacement, augmentation dispatch. *)
(* Python lists are sequences read through At (0-based); the acquisition,  *)
(* the decoder and random.randint are the environment: each invocation     *)
(* draws its outcome nondeterministically.                                 *)
(***************************************************************************)
EXTENDS Integers, Sequences, FiniteSets, TLC

\* ------------------------------------------------------------------ bounds
MaxLines == 2
MaxRetries == 5
MaxEnsembleViews == 2

\* --------------------------------------------------- configuration inputs
Modes == {"train", "val", "test", "other"}
SupportedModes == {"train", "val", "test"}
LabelChoices == {7, 9}
SpatialCropsChoices == {1, 2, 3, 4}
JitterScalesChoices == {<<256, 320>>}
TrainCropSizeChoices == {224}
TestCropSizeChoices == {224, 256}
DefaultSChoices == {0, 224}
NumSampleChoices == {1, 2, 3}
\* MULTIGRID.SHORT_CYCLE_FACTORS as exact fractions <<numerator, denominator>>
ShortCycleFactors == << <<1, 2>>, <<7071, 10000>> >>
\* short_cycle_idx as an optional value: <<>> is None (a plain integer index),
\* <<p>> the phase p of a tuple index (index, p)
NoShortCycle == <<>>
ShortCycleChoices == {NoShortCycle, <<0>>, <<1>>, <<2>>}

Configs ==
    [NUM_ENSEMBLE_VIEWS : 1..MaxEnsembleViews,
     NUM_SPATIAL_CROPS : SpatialCropsChoices,
     TRAIN_JITTER_SCALES : JitterScalesChoices,
     TRAIN_CROP_SIZE : TrainCropSizeChoices,
     TEST_CROP_SIZE : TestCropSizeChoices,
     DEFAULT_S : DefaultSChoices,
     AUG_ENABLE : BOOLEAN,
     AUG_NUM_SAMPLE : NumSampleChoices,
     AUG_RE_PROB_POSITIVE : BOOLEAN]

\* The configurations explored for a mode: a key the mode never reads keeps
\* its first choice (TEST.* and DATA.TEST_CROP_SIZE are read in test only,
\* MULTIGRID.DEFAULT_S in train / val only, AUG.NUM_SAMPLE and AUG.RE_PROB
\* only when AUG.ENABLE is set, and AUG.* in train only: the other modes
\* are explored with the augmentation flags all unset and all set).
ConfigsOf(m) ==
    {c \in Configs :
        /\ m # "test" => /\ c.NUM_ENSEMBLE_VIEWS = 1
                         /\ c.NUM_SPATIAL_CROPS = 1
                         /\ c.TEST_CROP_SIZE = 224
        /\ m \notin {"train", "val"} => c.DEFAULT_S = 0
        /\ ~c.AUG_ENABLE => c.AUG_NUM_SAMPLE = 1 /\ ~c.AUG_RE_PROB_POSITIVE
        /\ (m # "train" /\ c.AUG_ENABLE) => c.AUG_NUM_SAMPLE = 2 /\ c.AUG_RE_PROB_POSITIVE}

\* the short-cycle phases a request can carry: tuples come from the
\* short-cycle batch sampler, which serves train / val loaders
ShortCyclesOf(m) == IF m \in {"train", "val"} THEN ShortCycleChoices ELSE {NoShortCycle}

\* a manifest file: k lines "path<sep>label"; the path of line k is k
Manifests ==
    UNION {[1..n -> [path : 1..MaxLines, label : LabelChoices]] : n \in 0..MaxLines}

WellFormedManifests ==
    {m \in Manifests : \A k \in DOMAIN m : m[k].path = k}

VARIABLES
    mode, num_retries, cfg, manifest,          \* constructor arguments, csv file
    decoder_fills,                             \* whether decoder.decode populates the record it is handed
    num_clips, path_to_videos, labels,         \* self._num_clips, self._path_to_videos, ...
    spatial_temporal_idx, video_meta,
    aug, rand_erase,
    pc,                                        \* position of the one caller
    requested, short_cycle_idx,                \* the argument of __getitem__
    index, i_try, video_container,             \* locals of __getitem__
    sampling,                                  \* the resolved sampling descriptor
    decode_call, sampling_call,                \* arguments of the last decoder / spatial sampling call
    n_acquire, n_decode, n_replace,            \* invocations made by the current call
    tried,                                     \* candidate index of the last attempt made
    previous,                                  \* what the call before this one resolved and returned
    other,                                     \* a second caller (another loader thread) in __getitem__
    meta_handed,                               \* cache slots handed to the decoder by the call
    succeeded,                                 \* attempts whose acquisition and decode both succeeded
    result, error                              \* what the call returned / raised

vars == <<mode, num_retries, cfg, manifest, num_clips, path_to_videos, labels,
          spatial_temporal_idx, video_meta, aug, rand_erase, pc, requested,
          short_cycle_idx, index, i_try, video_container, sampling, decode_call,
          sampling_call, n_acquire, n_decode, n_replace, tried, meta_handed, succeeded, result,
          error,
          previous, other, decoder_fills>>

configVars == <<mode, num_retries, cfg, manifest, decoder_fills>>
manifestVars == <<num_clips, path_to_videos, labels, spatial_temporal_idx, aug, rand_erase>>
datasetVars == <<num_clips, path_to_videos, labels, spatial_temporal_idx, video_meta,
                 aug, rand_erase>>
callVars == <<requested, short_cycle_idx, index, i_try, video_container, sampling,
              decode_call,
              sampling_call, n_acquire, n_decode, n_replace, tried, meta_handed,
              succeeded, result, error>>

\* values of the locals while no call has set them (-1: no index)
NoSampling ==
    [temporal_sample_index |-> 0, spatial_sample_index |-> 0,
     min_scale |-> 0, max_scale |-> 0, crop_size |-> 0]
NoDecodeCall ==
    [path |-> 0, temporal_sample_index |-> 0, num_clips |-> 0, video_meta |-> -1,
     max_spatial_scale |-> 0, i_try |-> -1]
NoSamplingCall ==
    [pipeline |-> "none", spatial_idx |-> 0, min_scale |-> 0, max_scale |-> 0,
     crop_size |-> 0, times |-> 0, erase |-> FALSE, i_try |-> -1]
NoResult == [kind |-> "none", frames |-> <<>>, label |-> <<>>, index |-> <<>>, extra |-> {}]
NoError == [type |-> "none", path |-> 0, retries |-> 0]
\* no call before this one; kept says whether calls are recorded at all
NoPrevious(kept) ==
    [kept |-> kept, requested |-> -1, sampling |-> NoSampling,
     decode_call |-> NoDecodeCall, sampling_call |-> NoSamplingCall,
     result |-> NoResult]

\* the second caller outside __getitem__
NoOther ==
    [pc |-> "idle", requested |-> -1, index |-> -1, i_try |-> 0, n_replace |-> 0,
     meta_handed |-> {}]

\* ---------------------------------------------------------------- helpers
\* list[i] of a Python list
At(list, i) == list[i + 1]

InRange(list, i) == i >= 0 /\ i < Len(list)

\* Python 3 round() of the non-negative fraction n / d: half to even
PyRound(n, d) ==
    LET q == n \div d
        r == n % d
    IN  IF 2 * r < d THEN q
        ELSE IF 2 * r > d THEN q + 1
        ELSE IF q % 2 = 0 THEN q ELSE q + 1

\* ----------------------------------------------------------- construction
\* mutant: the spatial crops are left out of the replica count
NumClips_ViewsOnly(m, c) ==
    IF m \in {"train", "val"} THEN 1
    ELSE c.NUM_ENSEMBLE_VIEWS

NumClips(m, c) ==
    IF m \in {"train", "val"} THEN 1
    ELSE c.NUM_ENSEMBLE_VIEWS * c.NUM_SPATIAL_CROPS

\* mutant: the replica number is the running logical index
ClipSlot_Running(clip_idx, idx, n) == clip_idx * n + idx

\* the value appended to self._spatial_temporal_idx for replica idx of a line
ClipSlot(clip_idx, idx, n) == idx

\* mutant: the cache is keyed by the manifest line
MetaKey_PerLine(clip_idx, idx, n) == clip_idx

\* the key of self._video_meta written for replica idx of a line
MetaKey(clip_idx, idx, n) == clip_idx * n + idx

\* the inner loop of _construct_loader: for idx in range(self._num_clips)
RECURSIVE AppendClips(_, _, _, _, _)
AppendClips(st, line, clip_idx, idx, n) ==
    IF idx >= n THEN st
    ELSE AppendClips(
            [path_to_videos |-> Append(st.path_to_videos, line.path),
             labels |-> Append(st.labels, line.label),
             spatial_temporal_idx |-> Append(st.spatial_temporal_idx,
                                             ClipSlot(clip_idx, idx, n)),
             video_meta |-> [k \in DOMAIN st.video_meta \cup {MetaKey(clip_idx, idx, n)} |->
                               IF k = MetaKey(clip_idx, idx, n) THEN {}
                               ELSE st.video_meta[k]]],
            line, clip_idx, idx + 1, n)

\* the outer loop of _construct_loader: for clip_idx, path_label in enumerate(lines)
RECURSIVE ReadLines(_, _, _, _)
ReadLines(st, lines, clip_idx, n) ==
    IF clip_idx >= Len(lines) THEN st
    ELSE ReadLines(AppendClips(st, At(lines, clip_idx), clip_idx, 0, n),
                   lines, clip_idx + 1, n)

ConstructLoader(lines, n) ==
    ReadLines([path_to_videos |-> <<>>, labels |-> <<>>,
               spatial_temporal_idx |-> <<>>, video_meta |-> <<>>],
              lines, 0, n)

\* mutant: the augmentation flag does not look at the mode
AugFlag_AnyMode(m, c) == c.AUG_ENABLE

\* self.aug, self.rand_erase
AugFlag(m, c) == m = "train" /\ c.AUG_ENABLE
RandEraseFlag(m, c) == AugFlag(m, c) /\ c.AUG_RE_PROB_POSITIVE

NoCall ==
    /\ requested = -1 /\ short_cycle_idx = NoShortCycle
    /\ index = -1 /\ i_try = 0 /\ video_container = "None"
    /\ sampling = NoSampling /\ decode_call = NoDecodeCall
    /\ sampling_call = NoSamplingCall
    /\ n_acquire = 0 /\ n_decode = 0 /\ n_replace = 0
    /\ tried = -1 /\ meta_handed = {} /\ succeeded = {}
    /\ result = NoResult /\ error = NoError

Init ==
    /\ mode \in Modes
    /\ num_retries \in 0..MaxRetries
    /\ cfg \in ConfigsOf(mode)
    /\ manifest \in WellFormedManifests
    /\ num_clips = 0
    /\ path_to_videos = <<>> /\ labels = <<>> /\ spatial_temporal_idx = <<>>
    /\ video_meta = <<>>
    /\ aug = FALSE /\ rand_erase = FALSE
    /\ pc = "new"
    /\ NoCall
    /\ previous = NoPrevious(FALSE)
    /\ other = NoOther
    /\ decoder_fills = FALSE

\* mutant: the constructor takes any split name
AcceptsMode_Any(m) == TRUE

\* assert mode in ["train", "val", "test"]
AcceptsMode(m) == m \in SupportedModes

\* what a failing constructor raises: the mode assertion, or, for an empty
\* manifest, the AttributeError of self._split_idx, which the message of the
\* failing assertion reads and the class never sets
ConstructError(m, lines) ==
    IF ~AcceptsMode(m) THEN "AssertionError" ELSE "AttributeError"

\* num_videos, which __len__ returns
NumVideos(paths) == Len(paths)
DatasetLen(paths) == NumVideos(paths)

\* Kinetics.__init__ on a supported mode and a non-empty manifest
Construct ==
    /\ pc = "new"
    /\ AcceptsMode(mode)
    /\ Len(manifest) > 0
    /\ LET n == NumClips(mode, cfg)
           st == ConstructLoader(manifest, n)
       IN  /\ num_clips' = n
           /\ path_to_videos' = st.path_to_videos
           /\ labels' = st.labels
           /\ spatial_temporal_idx' = st.spatial_temporal_idx
           /\ video_meta' = st.video_meta
    /\ aug' = AugFlag(mode, cfg)
    /\ rand_erase' = RandEraseFlag(mode, cfg)
    /\ pc' = "idle"
    /\ UNCHANGED <<configVars, callVars, previous, other>>

\* Kinetics.__init__ failing on one of its assertions
ConstructFails ==
    /\ pc = "new"
    /\ ~AcceptsMode(mode) \/ Len(manifest) = 0
    /\ pc' = "construct_failed"
    /\ error' = [NoError EXCEPT !.type = ConstructError(mode, manifest)]
    /\ UNCHANGED <<configVars, datasetVars, requested, short_cycle_idx,
                   index, i_try, video_container, sampling, decode_call, sampling_call, n_acquire,
                   n_decode, n_replace, tried, meta_handed, succeeded, result, previous, other>>

\* ------------------------------------------------- sampling descriptor
\* crop_size of train / val: the short-cycle override of TRAIN_CROP_SIZE
TrainCropSize(c, sc) ==
    IF sc \in {<<0>>, <<1>>}
    THEN LET f == ShortCycleFactors[sc[1] + 1]
         IN  PyRound(f[1] * c.DEFAULT_S, f[2])
    ELSE c.TRAIN_CROP_SIZE

\* mutant: the rescaled min_scale is truncated, not rounded
TrainMinScale_Truncated(c, crop) ==
    IF c.DEFAULT_S > 0
    THEN (c.TRAIN_JITTER_SCALES[1] * crop) \div c.DEFAULT_S
    ELSE c.TRAIN_JITTER_SCALES[1]

\* min_scale of train / val: rescaled when MULTIGRID.DEFAULT_S > 0
TrainMinScale(c, crop) ==
    IF c.DEFAULT_S > 0
    THEN PyRound(c.TRAIN_JITTER_SCALES[1] * crop, c.DEFAULT_S)
    ELSE c.TRAIN_JITTER_SCALES[1]

\* mutant: the slot is divided by the number of views
TestTemporalIndex_ByViews(c, sti) == sti \div c.NUM_ENSEMBLE_VIEWS

TestTemporalIndex(c, sti) == sti \div c.NUM_SPATIAL_CROPS

\* mutant: the single-crop case takes the modulus like the multi-crop case
TestSpatialIndex_NoCenter(c, sti) == sti % c.NUM_SPATIAL_CROPS

TestSpatialIndex(c, sti) ==
    IF c.NUM_SPATIAL_CROPS > 1 THEN sti % c.NUM_SPATIAL_CROPS ELSE 1

\* mutant: the single-crop case takes the whole jitter range
TestScales_JitterRange(c) ==
    IF c.NUM_SPATIAL_CROPS > 1
    THEN <<c.TEST_CROP_SIZE, c.TEST_CROP_SIZE, c.TEST_CROP_SIZE>>
    ELSE <<c.TRAIN_JITTER_SCALES[1], c.TRAIN_JITTER_SCALES[2], c.TEST_CROP_SIZE>>

\* <<min_scale, max_scale, crop_size>> of test
TestScales(c) ==
    IF c.NUM_SPATIAL_CROPS > 1
    THEN <<c.TEST_CROP_SIZE, c.TEST_CROP_SIZE, c.TEST_CROP_SIZE>>
    ELSE <<c.TRAIN_JITTER_SCALES[1], c.TRAIN_JITTER_SCALES[1], c.TEST_CROP_SIZE>>

TrainSampling(c, sc) ==
    LET crop == TrainCropSize(c, sc)
    IN  [temporal_sample_index |-> -1,
         spatial_sample_index |-> -1,
         min_scale |-> TrainMinScale(c, crop),
         max_scale |-> c.TRAIN_JITTER_SCALES[2],
         crop_size |-> crop]

TestSampling(c, sti) ==
    LET s == TestScales(c)
    IN  [temporal_sample_index |-> TestTemporalIndex(c, sti),
         spatial_sample_index |-> TestSpatialIndex(c, sti),
         min_scale |-> s[1],
         max_scale |-> s[2],
         crop_size |-> s[3]]

\* mutant: val resolved like test
ResolveSampling_ValAsTest(m, c, stis, idx, sc) ==
    IF m \in {"train"} THEN TrainSampling(c, sc)
    ELSE TestSampling(c, At(stis, idx))

\* the descriptor __getitem__ resolves for (mode, index, short_cycle_idx)
ResolveSampling(m, c, stis, idx, sc) ==
    IF m \in {"train", "val"} THEN TrainSampling(c, sc)
    ELSE TestSampling(c, At(stis, idx))

\* ------------------------------------------------------------ retry loop
AcquireOutcomes == {"raises", "returns_none", "returns_container"}
DecodeOutcomes == {"None", "frames"}

\* video_container after the try / except around get_video_container
ContainerOf(outcome) == IF outcome = "returns_container" THEN "container" ELSE "None"

\* for i_try in range(self._num_retries)
LoopContinues(i, nr) == i < nr

\* mutant: the check of the container is skipped
ContainerMissing_Never(vc) == FALSE

\* if video_container is None
ContainerMissing(vc) == vc = "None"

\* mutant: every decode result is taken for a failure
FramesMissing_Always(fr) == TRUE

\* if frames is None
FramesMissing(fr) == fr = "None"

\* mutant: the threshold is met one attempt early
ShouldReplace_AtHalf(i, nr) == i >= nr \div 2

\* i_try > self._num_retries // 2
ShouldReplace(i, nr) == i > nr \div 2

\* mutant: the random draw has its upper bound one too high
Replacement_UpToLen(m, idx, n) ==
    IF m \notin {"test"} THEN 0..n ELSE {idx + 1}

\* mutant: the random draw is taken in every mode
Replacement_AlwaysRandom(m, idx, n) == 0..(n - 1)

\* the candidates the replacement policy can give for index idx of n entries
Replacement(m, idx, n) ==
    IF m \notin {"test"} THEN 0..(n - 1) ELSE {idx + 1}

NextCandidates(m, idx, i, nr, n) ==
    IF ShouldReplace(i, nr) THEN Replacement(m, idx, n) ELSE {idx}

\* mutant: the label of the entry the caller asked for
ServedLabel_OfRequested(lbls, idx) == At(lbls, requested)

\* label = self._labels[index]
ServedLabel(lbls, idx) == At(lbls, idx)

\* mutant: the linear probe of the failure branch runs on the success path too
ServedIndex_Probed(idx) == idx + 1

\* the index __getitem__ returns
ServedIndex(idx) == idx

\* how often the pipeline runs and which return variant is built
UsesListVariant(a, c) == a /\ c.AUG_NUM_SAMPLE > 1
\* mutant: the sample loop stops one short
PipelineRuns_OneShort(a, c) == IF UsesListVariant(a, c) THEN c.AUG_NUM_SAMPLE - 1 ELSE 1

PipelineRuns(a, c) == IF UsesListVariant(a, c) THEN c.AUG_NUM_SAMPLE ELSE 1
\* mutant: the dispatcher always takes the plain branch
Pipeline_AlwaysPlain(a) == "plain"

Pipeline(a) == IF a THEN "aug_frame" ELSE "plain"

Raise(type) ==
    /\ pc' = "raised"
    /\ error' = [NoError EXCEPT !.type = type]

\* __getitem__ up to the head of the retry loop (lines 144-196)
GetItem ==
    /\ pc = "idle"
    /\ \E idx \in 0..(Len(path_to_videos) - 1), sc \in ShortCyclesOf(mode) :
        /\ requested' = idx
        /\ short_cycle_idx' = sc
        /\ index' = idx
        /\ i_try' = 0
        /\ IF mode \notin SupportedModes
           THEN Raise("NotImplementedError") /\ UNCHANGED sampling
           ELSE LET d == ResolveSampling(mode, cfg, spatial_temporal_idx, idx, sc)
                IN  IF mode = "test" /\ d.min_scale # d.max_scale
                    THEN Raise("AssertionError") /\ UNCHANGED sampling
                    ELSE /\ sampling' = d
                         /\ pc' = "try"
                         /\ UNCHANGED error
    /\ UNCHANGED <<configVars, datasetVars, video_container, decode_call,
                   sampling_call, n_acquire,
                   n_decode, n_replace, tried, meta_handed, succeeded, result, previous, other>>

\* the failure branch of an attempt: replacement policy, then continue
FailAttempt ==
    /\ index' \in NextCandidates(mode, index, i_try, num_retries, Len(path_to_videos))
    /\ n_replace' = IF ShouldReplace(i_try, num_retries) THEN n_replace + 1 ELSE n_replace
    /\ i_try' = i_try + 1
    /\ pc' = "try"

\* one attempt up to the decoder call (lines 199-227)
Acquire ==
    /\ pc = "try"
    /\ LoopContinues(i_try, num_retries)
    /\ IF ~InRange(path_to_videos, index)
       THEN \* self._path_to_videos[index] raises inside try and again in the handler
            /\ Raise("IndexError")
            /\ video_container' = "None"
            /\ UNCHANGED <<index, i_try, n_acquire, n_replace, tried>>
       ELSE \E outcome \in AcquireOutcomes :
            /\ n_acquire' = n_acquire + 1
            /\ tried' = index
            /\ video_container' = ContainerOf(outcome)
            /\ UNCHANGED error
            /\ IF ContainerMissing(ContainerOf(outcome))
               THEN FailAttempt
               ELSE pc' = "decode" /\ UNCHANGED <<index, i_try, n_replace>>
    /\ UNCHANGED <<configVars, datasetVars, requested, short_cycle_idx, sampling,
                   decode_call, sampling_call, n_decode, meta_handed, succeeded,
                   result, previous, other>>

\* the cache after decoder.decode was handed the record of slot: the decoder
\* populates that record lazily, or leaves it as it is
MetaAfterDecode(meta, slot) ==
    IF decoder_fills
    THEN {meta, [meta EXCEPT ![slot] = @ \cup {"probed"}]}
    ELSE {meta}

\* mutant: the decoder is handed the record of the entry the caller asked for
MetaSlot_OfRequested(idx) == requested

\* mutant: every call hands the decoder the slot of entry 0
MetaSlot_First(idx) == 0

\* self._video_meta[index], the cache slot the decoder is handed
MetaSlot(idx) == idx

\* the items a successful attempt returns (lines 259-308)
Item(idx) ==
    LET k == PipelineRuns(aug, cfg)
        frame == [source |-> idx,
                  temporal_sample_index |-> sampling.temporal_sample_index,
                  spatial_idx |-> sampling.spatial_sample_index,
                  pipeline |-> Pipeline(aug),
                  erased |-> aug /\ rand_erase]
    IN  [kind |-> IF UsesListVariant(aug, cfg) THEN "list" ELSE "scalar",
         frames |-> [j \in 1..k |-> frame],
         label |-> [j \in 1..k |-> ServedLabel(labels, idx)],
         index |-> [j \in 1..k |-> ServedIndex(idx)],
         extra |-> {}]

\* the decoder call of an attempt and what follows it (lines 229-308)
Decode ==
    /\ pc = "decode"
    /\ IF index \notin DOMAIN video_meta
       THEN /\ Raise("KeyError")
            /\ UNCHANGED <<video_meta, index, i_try, n_decode, n_replace, decode_call,
                           sampling_call, meta_handed, succeeded, result>>
       ELSE \E outcome \in DecodeOutcomes :
            /\ n_decode' = n_decode + 1
            /\ meta_handed' = meta_handed \cup {MetaSlot(index)}
            /\ video_meta' \in MetaAfterDecode(video_meta, MetaSlot(index))
            /\ succeeded' = IF outcome = "frames" THEN succeeded \cup {i_try} ELSE succeeded
            /\ decode_call' = [path |-> At(path_to_videos, index),
                               temporal_sample_index |-> sampling.temporal_sample_index,
                               num_clips |-> cfg.NUM_ENSEMBLE_VIEWS,
                               video_meta |-> MetaSlot(index),
                               max_spatial_scale |-> sampling.min_scale,
                               i_try |-> i_try]
            /\ UNCHANGED error
            /\ IF FramesMissing(outcome)
               THEN FailAttempt /\ UNCHANGED <<sampling_call, result>>
               ELSE /\ sampling_call' = [pipeline |-> Pipeline(aug),
                                         spatial_idx |-> sampling.spatial_sample_index,
                                         min_scale |-> sampling.min_scale,
                                         max_scale |-> sampling.max_scale,
                                         crop_size |-> sampling.crop_size,
                                         times |-> PipelineRuns(aug, cfg),
                                         erase |-> aug /\ rand_erase,
                                         i_try |-> i_try]
                    /\ result' = Item(index)
                    /\ pc' = "returned"
                    /\ UNCHANGED <<index, i_try, n_replace>>
    /\ UNCHANGED <<configVars, manifestVars, requested, short_cycle_idx, sampling,
                   video_container, n_acquire, tried, previous, other>>

\* the else clause of the for loop (lines 309-314)
Exhausted ==
    /\ pc = "try"
    /\ ~LoopContinues(i_try, num_retries)
    /\ pc' = "raised"
    /\ error' = IF InRange(path_to_videos, index)
                THEN [type |-> "RuntimeError", path |-> At(path_to_videos, index),
                      retries |-> num_retries]
                ELSE [NoError EXCEPT !.type = "IndexError"]
    /\ UNCHANGED <<configVars, datasetVars, requested, short_cycle_idx, index, i_try,
                   video_container, sampling, decode_call, sampling_call, n_acquire, n_decode,
                   n_replace, tried, meta_handed, succeeded, result, previous, other>>

\* a call that returned an item at its first attempt
CleanCall == pc = "returned" /\ i_try = 0 /\ n_acquire = 1 /\ n_decode = 1

\* the caller takes the item or the error; the dataset is ready for the next call
Finish ==
    /\ pc \in {"returned", "raised"}
    /\ pc' = "idle"
    /\ requested' = -1 /\ short_cycle_idx' = NoShortCycle
    /\ index' = -1 /\ i_try' = 0 /\ video_container' = "None"
    /\ sampling' = NoSampling /\ decode_call' = NoDecodeCall
    /\ sampling_call' = NoSamplingCall
    /\ n_acquire' = 0 /\ n_decode' = 0 /\ n_replace' = 0
    /\ tried' = -1 /\ meta_handed' = {} /\ succeeded' = {}
    /\ result' = NoResult /\ error' = NoError
    /\ previous' = IF previous.kept /\ CleanCall
                   THEN [kept |-> TRUE, requested |-> requested, sampling |-> sampling,
                         decode_call |-> decode_call, sampling_call |-> sampling_call,
                         result |-> result]
                   ELSE NoPrevious(previous.kept)
    /\ UNCHANGED <<configVars, datasetVars, other>>

Next == Construct \/ ConstructFails \/ GetItem \/ Acquire \/ Decode \/ Exhausted \/ Finish

Spec == Init /\ [][Next]_vars

\* two and more calls in a row on a val / test dataset, each recorded for the next
InitTwice ==
    /\ mode \in {"val", "test"}
    /\ num_retries \in 1..3
    /\ cfg \in ConfigsOf(mode)
    /\ manifest \in WellFormedManifests
    /\ num_clips = 0
    /\ path_to_videos = <<>> /\ labels = <<>> /\ spatial_temporal_idx = <<>>
    /\ video_meta = <<>>
    /\ aug = FALSE /\ rand_erase = FALSE
    /\ pc = "new"
    /\ NoCall
    /\ previous = NoPrevious(TRUE)
    /\ other = NoOther
    /\ decoder_fills = FALSE

SpecTwice == InitTwice /\ [][Next]_vars

\* ------------------------------------------------------- a second caller
\* The second caller runs the same retry loop on the same dataset object;
\* of its call the index bookkeeping and the cache slots are kept.
OtherFails ==
    \E c \in NextCandidates(mode, other.index, other.i_try, num_retries,
                            Len(path_to_videos)) :
        other' = [other EXCEPT
                    !.pc = "try",
                    !.index = c,
                    !.i_try = other.i_try + 1,
                    !.n_replace = IF ShouldReplace(other.i_try, num_retries)
                                  THEN other.n_replace + 1 ELSE other.n_replace]

OtherGetItem ==
    /\ pc \notin {"new", "construct_failed"}
    /\ mode \in SupportedModes
    /\ other.pc = "idle"
    /\ \E idx \in 0..(Len(path_to_videos) - 1) :
          other' = [NoOther EXCEPT !.pc = "try", !.requested = idx, !.index = idx]
    /\ UNCHANGED <<configVars, datasetVars, pc, callVars, previous>>

OtherAcquire ==
    /\ other.pc = "try"
    /\ LoopContinues(other.i_try, num_retries)
    /\ IF ~InRange(path_to_videos, other.index)
       THEN other' = [other EXCEPT !.pc = "raised"]
       ELSE \E outcome \in AcquireOutcomes :
               IF ContainerMissing(ContainerOf(outcome))
               THEN OtherFails
               ELSE other' = [other EXCEPT !.pc = "decode"]
    /\ UNCHANGED <<configVars, datasetVars, pc, callVars, previous>>

OtherDecode ==
    /\ other.pc = "decode"
    /\ other.index \in DOMAIN video_meta
    /\ video_meta' \in MetaAfterDecode(video_meta, MetaSlot(other.index))
    /\ \E outcome \in DecodeOutcomes :
          LET handed == other.meta_handed \cup {MetaSlot(other.index)}
          IN  IF FramesMissing(outcome)
              THEN \E c \in NextCandidates(mode, other.index, other.i_try, num_retries,
                                           Len(path_to_videos)) :
                      other' = [other EXCEPT
                                  !.pc = "try",
                                  !.index = c,
                                  !.i_try = other.i_try + 1,
                                  !.n_replace = IF ShouldReplace(other.i_try, num_retries)
                                                THEN other.n_replace + 1
                                                ELSE other.n_replace,
                                  !.meta_handed = handed]
              ELSE other' = [other EXCEPT !.pc = "returned", !.meta_handed = handed]
    /\ UNCHANGED <<configVars, manifestVars, pc, callVars, previous>>

OtherExhausted ==
    /\ other.pc = "try"
    /\ ~LoopContinues(other.i_try, num_retries)
    /\ other' = [other EXCEPT !.pc = "raised"]
    /\ UNCHANGED <<configVars, datasetVars, pc, callVars, previous>>

OtherFinish ==
    /\ other.pc \in {"returned", "raised"}
    /\ other' = NoOther
    /\ UNCHANGED <<configVars, datasetVars, pc, callVars, previous>>

InitTwo ==
    /\ mode \in SupportedModes
    /\ num_retries \in {1, MaxRetries}
    /\ cfg \in {c \in ConfigsOf(mode) :
                  /\ c.NUM_ENSEMBLE_VIEWS = 1 /\ c.NUM_SPATIAL_CROPS \in {1, 2}
                  /\ ~c.AUG_ENABLE /\ c.DEFAULT_S = 0 /\ c.TEST_CROP_SIZE = 224}
    /\ manifest \in {m \in WellFormedManifests :
                       \A j, k \in DOMAIN m : m[j].label = m[k].label}
    /\ num_clips = 0
    /\ path_to_videos = <<>> /\ labels = <<>> /\ spatial_temporal_idx = <<>>
    /\ video_meta = <<>>
    /\ aug = FALSE /\ rand_erase = FALSE
    /\ pc = "new"
    /\ NoCall
    /\ previous = NoPrevious(FALSE)
    /\ other = NoOther
    /\ decoder_fills = FALSE

\* a decoder that keeps what it probed in the record it is handed
InitCache ==
    /\ mode \in SupportedModes
    /\ num_retries \in {1, MaxRetries}
    /\ cfg \in {c \in ConfigsOf(mode) :
                  /\ c.NUM_ENSEMBLE_VIEWS = 1 /\ c.NUM_SPATIAL_CROPS \in {1, 2}
                  /\ ~c.AUG_ENABLE /\ c.DEFAULT_S = 0 /\ c.TEST_CROP_SIZE = 224}
    /\ manifest \in {m \in WellFormedManifests :
                       \A j, k \in DOMAIN m : m[j].label = m[k].label}
    /\ num_clips = 0
    /\ path_to_videos = <<>> /\ labels = <<>> /\ spatial_temporal_idx = <<>>
    /\ video_meta = <<>>
    /\ aug = FALSE /\ rand_erase = FALSE
    /\ pc = "new"
    /\ NoCall
    /\ previous = NoPrevious(FALSE)
    /\ other = NoOther
    /\ decoder_fills = TRUE

SpecCache == InitCache /\ [][Next]_vars

\* every combination of the augmentation flags, in every supported mode
InitAug ==
    /\ mode \in SupportedModes
    /\ num_retries \in {1, MaxRetries}
    /\ cfg \in {c \in Configs :
                  /\ c.NUM_ENSEMBLE_VIEWS = 1 /\ c.NUM_SPATIAL_CROPS = 1
                  /\ c.DEFAULT_S = 0 /\ c.TEST_CROP_SIZE = 224}
    /\ manifest \in {m \in WellFormedManifests :
                       \A j, k \in DOMAIN m : m[j].label = m[k].label}
    /\ num_clips = 0
    /\ path_to_videos = <<>> /\ labels = <<>> /\ spatial_temporal_idx = <<>>
    /\ video_meta = <<>>
    /\ aug = FALSE /\ rand_erase = FALSE
    /\ pc = "new"
    /\ NoCall
    /\ previous = NoPrevious(FALSE)
    /\ other = NoOther
    /\ decoder_fills = FALSE

SpecAug == InitAug /\ [][Next]_vars

\* train / val datasets whose crop size and multigrid default size vary
\* independently (the long cycle of multigrid training changes
\* TRAIN_CROP_SIZE and leaves DEFAULT_S)
ScaleConfigs ==
    {[c EXCEPT !.TRAIN_CROP_SIZE = t, !.DEFAULT_S = d] :
        c \in {b \in Configs :
                  /\ b.NUM_ENSEMBLE_VIEWS = 1 /\ b.NUM_SPATIAL_CROPS = 1
                  /\ b.TEST_CROP_SIZE = 224 /\ b.DEFAULT_S = 0
                  /\ ~b.AUG_ENABLE /\ b.AUG_NUM_SAMPLE = 1 /\ ~b.AUG_RE_PROB_POSITIVE},
        t \in {112, 224},
        d \in {0, 224, 256}}

InitScales ==
    /\ mode \in {"train", "val"}
    /\ num_retries \in {1, MaxRetries}
    /\ cfg \in ScaleConfigs
    /\ manifest \in {m \in WellFormedManifests :
                       \A j, k \in DOMAIN m : m[j].label = m[k].label}
    /\ num_clips = 0
    /\ path_to_videos = <<>> /\ labels = <<>> /\ spatial_temporal_idx = <<>>
    /\ video_meta = <<>>
    /\ aug = FALSE /\ rand_erase = FALSE
    /\ pc = "new"
    /\ NoCall
    /\ previous = NoPrevious(FALSE)
    /\ other = NoOther
    /\ decoder_fills = FALSE

SpecScales == InitScales /\ [][Next]_vars

NextTwo ==
    \/ Next
    \/ OtherGetItem \/ OtherAcquire \/ OtherDecode \/ OtherExhausted \/ OtherFinish

SpecTwo == InitTwo /\ [][NextTwo]_vars

\* ------------------------------------------------------------------ claims
InCall == pc \in {"try", "decode", "returned", "raised"}

\* every entry of the returned item names the index idx
ServesIndex(idx) == \A j \in DOMAIN result.index : result.index[j] = idx

\* the returned item is complete: frames, labels and indices of one decoded
\* clip, as many as the pipeline ran, and the empty extra map
CompleteItem ==
    /\ result.kind \in {"scalar", "list"}
    /\ Len(result.frames) = sampling_call.times
    /\ Len(result.label) = Len(result.frames)
    /\ Len(result.index) = Len(result.frames)
    /\ Len(result.frames) >= 1
    /\ result.extra = {}
    /\ succeeded = {i_try}

\* C1: when every attempt fails the call ends with the retry-exhaustion
\* error, after exactly num_retries attempts (one acquisition each), in
\* every mode; a call that raises has failed on every attempt it made.
C1_AllFailExhausts ==
    pc = "raised" =>
        /\ error.type = "RuntimeError"
        /\ error.retries = num_retries
        /\ i_try = num_retries
        /\ n_acquire = num_retries

\* C2: the candidate index changes only in a failed attempt i with
\* i > num_retries // 2; up to attempt num_retries // 2 the candidate is the
\* requested index, and with num_retries in {1, 2} nothing is ever replaced.
C2_NoEarlyChange ==
    InCall =>
        /\ i_try <= num_retries \div 2 => index = requested /\ n_replace = 0
        /\ num_retries \in {1, 2} => index = requested /\ n_replace = 0

C2_ChangeOnlyOnLateFailure ==
    (pc \in {"try", "decode"} /\ pc' # "idle" /\ (index' # index \/ n_replace' # n_replace))
        => /\ i_try > num_retries \div 2
           /\ i_try' = i_try + 1
           /\ pc' = "try"
           /\ n_replace' = n_replace + 1

C2_ReplacementOnlyAfterHalf == []C2_NoEarlyChange /\ [][C2_ChangeOnlyOnLateFailure]_vars

C2_Witness ==
    /\ pc = "try" /\ n_replace > 0 /\ index # requested
    /\ i_try = (num_retries \div 2) + 2

\* C3: a returned item carries the candidate index of the attempt that
\* succeeded (the one acquired and decoded) and that entry's label; without
\* a replacement it is the requested index.
C3_ServedIndexAndLabel ==
    pc = "returned" =>
        /\ ServesIndex(tried)
        /\ decode_call.video_meta = tried
        /\ decode_call.path = At(path_to_videos, tried)
        /\ decode_call.i_try = i_try
        /\ \A j \in DOMAIN result.label :
              /\ result.label[j] = At(labels, result.index[j])
              /\ result.frames[j].source = result.index[j]
        /\ n_replace = 0 => ServesIndex(requested)

C3_Witness ==
    /\ pc = "returned"
    /\ n_replace > 0
    /\ result.index[1] # requested
    /\ result.label[1] # At(labels, requested)

\* C4: a call ends by returning a complete item or by the retry-exhaustion
\* error once the bound is hit, and during the loop the candidate index is a
\* valid position of the manifest arrays and a key of the metadata cache.
C4_TwoOutcomes ==
    /\ pc \in {"try", "decode"} =>
          InRange(path_to_videos, index) /\ index \in DOMAIN video_meta
    /\ pc = "raised" => error.type = "RuntimeError" /\ i_try = num_retries
    /\ pc = "returned" => CompleteItem /\ error = NoError

\* C5: the retry-exhaustion error names the path of the candidate index of
\* the last attempt made, and carries num_retries.
C5_ErrorNamesLastTried ==
    (pc = "raised" /\ error.type = "RuntimeError") =>
        /\ error.retries = num_retries
        /\ tried >= 0 => error.path = At(path_to_videos, tried)

\* C6: success on the first attempt means one acquisition, one decode, no
\* replacement, and the requested index is served from the requested entry.
C6_FirstAttemptSuccess ==
    (pc = "returned" /\ i_try = 0) =>
        /\ n_acquire = 1
        /\ n_decode = 1
        /\ n_replace = 0
        /\ ServesIndex(requested)
        /\ decode_call.video_meta = requested

C6_Witness ==
    /\ pc = "returned" /\ i_try = 0 /\ succeeded = {0}
    /\ num_retries > 2

\* C7: an attempt j whose acquisition and decode both succeed ends the call:
\* the item comes from attempt j, the first such attempt, nothing is
\* attempted after it and the earlier failures raise nothing.
C7_TransientFailuresAbsorbed ==
    \A j \in succeeded :
        /\ pc = "returned"
        /\ succeeded = {j}
        /\ i_try = j
        /\ n_acquire = j + 1
        /\ decode_call.i_try = j
        /\ sampling_call.i_try = j
        /\ result.kind # "none"
        /\ error = NoError

C7_Witness ==
    /\ pc = "returned"
    /\ succeeded = {i_try}
    /\ i_try > (num_retries \div 2) + 1
    /\ n_replace > 0
    /\ n_decode > 1 /\ n_decode < n_acquire

\* C8: in train and val the descriptor has temporal_index = spatial_index =
\* -1 whatever the index and the short-cycle phase, and the decoder and the
\* spatial sampling of every attempt get these values.
C8_TrainValRandomSampling ==
    (mode \in {"train", "val"} /\ InCall) =>
        /\ sampling.temporal_sample_index = -1
        /\ sampling.spatial_sample_index = -1
        /\ n_decode > 0 => decode_call.temporal_sample_index = -1
        /\ pc = "returned" =>
              /\ sampling_call.spatial_idx = -1
              /\ \A j \in DOMAIN result.frames :
                    /\ result.frames[j].temporal_sample_index = -1
                    /\ result.frames[j].spatial_idx = -1

C8_Witness ==
    /\ mode = "val" /\ pc = "returned"
    /\ short_cycle_idx = <<1>>
    /\ n_decode > 1 /\ n_replace > 0

\* C9: in test with more than one spatial crop, min_scale = max_scale =
\* crop_size = TEST_CROP_SIZE and spatial_index is
\* spatial_temporal_idx[index] mod NUM_SPATIAL_CROPS, one of 0, 1, 2.
C9_TestMultiCrop ==
    (mode = "test" /\ cfg.NUM_SPATIAL_CROPS > 1 /\ InCall) =>
        /\ sampling.min_scale = cfg.TEST_CROP_SIZE
        /\ sampling.max_scale = cfg.TEST_CROP_SIZE
        /\ sampling.crop_size = cfg.TEST_CROP_SIZE
        /\ sampling.spatial_sample_index =
              At(spatial_temporal_idx, requested) % cfg.NUM_SPATIAL_CROPS
        /\ sampling.spatial_sample_index \in {0, 1, 2}

Constructed == pc \notin {"new", "construct_failed"}

\* C11: a manifest of N lines gives N * c logical entries, c = 1 in train
\* and val and NUM_ENSEMBLE_VIEWS * NUM_SPATIAL_CROPS in test, and __len__
\* and num_videos report N * c.
C11_ManifestExpansion ==
    Constructed =>
        LET c == IF mode \in {"train", "val"} THEN 1
                 ELSE cfg.NUM_ENSEMBLE_VIEWS * cfg.NUM_SPATIAL_CROPS
        IN  /\ num_clips = c
            /\ Len(path_to_videos) = Len(manifest) * c
            /\ Len(labels) = Len(manifest) * c
            /\ Len(spatial_temporal_idx) = Len(manifest) * c
            /\ NumVideos(path_to_videos) = Len(manifest) * c
            /\ DatasetLen(path_to_videos) = Len(manifest) * c

C11_Witness ==
    /\ pc = "idle" /\ mode = "test"
    /\ Len(manifest) = 2
    /\ cfg.NUM_ENSEMBLE_VIEWS = 2 /\ cfg.NUM_SPATIAL_CROPS = 3
    /\ DatasetLen(path_to_videos) = 12

\* C12: spatial_temporal_idx[i] = i mod num_clips, entries of one line
\* (equal i div num_clips) share path and label, and with 2 ensemble views
\* and 3 spatial crops entry 4 resolves to temporal_index 1, spatial_index 1.
C12_ReplicaSlots ==
    Constructed =>
        /\ \A i \in 0..(Len(path_to_videos) - 1) :
              /\ At(spatial_temporal_idx, i) = i % num_clips
              /\ \A j \in 0..(Len(path_to_videos) - 1) :
                    (i \div num_clips = j \div num_clips) =>
                        /\ At(path_to_videos, i) = At(path_to_videos, j)
                        /\ At(labels, i) = At(labels, j)
        /\ (mode = "test" /\ cfg.NUM_ENSEMBLE_VIEWS = 2 /\ cfg.NUM_SPATIAL_CROPS = 3) =>
              /\ \A i \in 0..5 : At(spatial_temporal_idx, i) = i
              /\ (InCall /\ requested % num_clips = 4) =>
                    /\ sampling.temporal_sample_index = 1
                    /\ sampling.spatial_sample_index = 1

C12_Witness ==
    /\ mode = "test" /\ cfg.NUM_ENSEMBLE_VIEWS = 2 /\ cfg.NUM_SPATIAL_CROPS = 3
    /\ Len(manifest) = 2 /\ Len(path_to_videos) = 12
    /\ pc = "try" /\ requested = 10
    /\ At(labels, 4) # At(labels, 10)

\* C15: a dataset of an unsupported mode is never constructed (the
\* constructor rejects the mode), so no retrieval runs on it; a retrieval
\* that did meet such a mode would raise NotImplementedError at dispatch,
\* before any acquisition or decode and without a retry.
C15_UnsupportedMode ==
    (mode \notin {"train", "val", "test"}) =>
        /\ pc \in {"new", "construct_failed"}
        /\ pc = "construct_failed" => error.type = "AssertionError"
        /\ n_acquire = 0 /\ n_decode = 0 /\ i_try = 0
        /\ Len(path_to_videos) = 0

C15_Witness ==
    /\ mode = "other" /\ pc = "construct_failed"
    /\ Len(manifest) > 0
    /\ error.type = "AssertionError"

\* C13: with policy augmentation active and AUG.NUM_SAMPLE = k > 1 a
\* successful call returns the list variant: k frames, k labels, k indices,
\* every label labels[served index], every index the served index, all from
\* the one clip decoded in the successful attempt, and an empty map.
C13_MultiSampleLists ==
    (pc = "returned" /\ aug /\ cfg.AUG_NUM_SAMPLE > 1) =>
        /\ result.kind = "list"
        /\ Len(result.frames) = cfg.AUG_NUM_SAMPLE
        /\ Len(result.label) = cfg.AUG_NUM_SAMPLE
        /\ Len(result.index) = cfg.AUG_NUM_SAMPLE
        /\ \A j \in 1..cfg.AUG_NUM_SAMPLE :
              /\ result.index[j] = tried
              /\ result.label[j] = At(labels, tried)
              /\ result.frames[j].source = decode_call.video_meta
              /\ result.frames[j].source = tried
              /\ result.frames[j].pipeline = "aug_frame"
        /\ decode_call.i_try = i_try
        /\ sampling_call.times = cfg.AUG_NUM_SAMPLE
        /\ result.extra = {}

C13_Witness ==
    /\ pc = "returned" /\ aug /\ cfg.AUG_NUM_SAMPLE = 3
    /\ result.kind = "list" /\ Len(result.index) = 3
    /\ n_replace > 0 /\ result.index[3] # requested

\* C18: the decoder runs only in an attempt whose acquisition gave a
\* container, once, on the candidate index (path and cache slot) that
\* acquisition used; an attempt whose acquisition fails goes on to the next
\* attempt without a decoder call.
C18_DecoderCall ==
    (n_decode' # n_decode /\ pc' # "idle") =>
        /\ pc = "decode"
        /\ video_container = "container"
        /\ n_decode' = n_decode + 1
        /\ n_acquire = i_try + 1
        /\ tried = index
        /\ decode_call'.i_try = i_try
        /\ decode_call'.video_meta = tried
        /\ decode_call'.path = At(path_to_videos, tried)
        /\ pc' = "returned" \/ (pc' = "try" /\ i_try' = i_try + 1)

C18_FailedAcquisition ==
    (n_acquire' = n_acquire + 1 /\ video_container' = "None") =>
        /\ n_decode' = n_decode
        /\ decode_call' = decode_call
        /\ pc' = "try"
        /\ i_try' = i_try + 1

C18_DecodeAfterAcquire ==
    /\ [](InCall => n_decode <= n_acquire /\ n_acquire <= i_try + 1)
    /\ [][C18_DecoderCall /\ C18_FailedAcquisition]_vars

C18_Witness ==
    /\ pc = "returned" /\ i_try = 4
    /\ n_decode = 3 /\ n_acquire = 5
    /\ decode_call.i_try = 4 /\ decode_call.video_meta = tried
    /\ tried # requested

\* C19: in test, the temporal and spatial index the served clip is decoded
\* and cropped with are the ones the resolver gives for the served index,
\* spatial_temporal_idx[served], also when the served index is a replacement.
C19_ServedTestIndices ==
    (mode = "test" /\ pc = "returned") =>
        /\ ServesIndex(tried)
        /\ decode_call.temporal_sample_index =
              TestTemporalIndex(cfg, At(spatial_temporal_idx, tried))
        /\ sampling_call.spatial_idx =
              TestSpatialIndex(cfg, At(spatial_temporal_idx, tried))

\* C20: in train and val every replacement is drawn from 0..len-1, each
\* value of the range (the failing index included) can be drawn, and at
\* every attempt the candidate has a path, a label and a cache slot.
C20_CandidateValid ==
    (mode \in {"train", "val"} /\ InCall) =>
        /\ InRange(path_to_videos, index)
        /\ InRange(labels, index)
        /\ index \in DOMAIN video_meta

C20_FullRange ==
    (/\ mode \in {"train", "val"}
     /\ pc \in {"try", "decode"}
     /\ LoopContinues(i_try, num_retries)
     /\ ShouldReplace(i_try, num_retries)) =>
        \A k \in 0..(Len(path_to_videos) - 1) :
            ENABLED (Next /\ index' = k /\ n_replace' = n_replace + 1)

C20_DrawnInRange ==
    (mode \in {"train", "val"} /\ n_replace' = n_replace + 1) =>
        /\ index' \in 0..(Len(path_to_videos) - 1)
        /\ i_try' = i_try + 1
        /\ ShouldReplace(i_try, num_retries)

C20_TrainValReplacement ==
    /\ [](C20_CandidateValid /\ C20_FullRange)
    /\ [][C20_DrawnInRange]_vars

C20_Witness ==
    /\ mode \in {"train", "val"} /\ pc = "returned"
    /\ n_replace = 1 /\ i_try = 4
    /\ index = Len(path_to_videos) - 1 /\ index = tried /\ index # requested
    /\ InRange(labels, index) /\ index \in DOMAIN video_meta

\* C16: a call never stalls and makes at most num_retries acquisitions and
\* at most num_retries decoder calls, and it ends in the return of an item
\* or in the retry-exhaustion error, whatever fails and is replaced.
C16_EndsWithinRetries ==
    /\ InCall =>
          /\ i_try <= num_retries
          /\ n_acquire <= num_retries
          /\ n_decode <= num_retries
    /\ pc \in {"try", "decode"} => ENABLED (Acquire \/ Decode \/ Exhausted)
    /\ pc \in {"returned", "raised"} => ~ENABLED (Acquire \/ Decode \/ Exhausted)
    /\ pc = "raised" => error.type = "RuntimeError" /\ n_acquire = num_retries

\* the random choices a call takes: a random replacement (train / val), a
\* random temporal or spatial position (index -1), the augmentation pipeline
RandomChoices ==
    (IF mode # "test" THEN n_replace ELSE 0)
    + (IF n_decode > 0 /\ decode_call.temporal_sample_index = -1 THEN 1 ELSE 0)
    + (IF sampling_call.times > 0 /\ sampling_call.spatial_idx = -1 THEN 1 ELSE 0)
    + (IF sampling_call.pipeline = "aug_frame" THEN 1 ELSE 0)

FixedIndices ==
    sampling.temporal_sample_index >= 0 /\ sampling.spatial_sample_index >= 0

TwoCalls ==
    /\ InCall /\ other.pc \in {"try", "decode", "returned", "raised"}
    /\ requested # other.requested

\* C17: two calls in flight that were asked for different entries hand the
\* decoder disjoint sets of cache slots, whatever fails.
C17_DisjointSlots ==
    TwoCalls => meta_handed \cap other.meta_handed = {}

\* C17, amended: as long as neither call has replaced its candidate, each
\* hands the decoder only the slot of the entry it was asked for, so the
\* slots of two calls asked for different entries are disjoint.
C17_DisjointUntilReplaced ==
    (TwoCalls /\ n_replace = 0 /\ other.n_replace = 0) =>
        /\ meta_handed \subseteq {requested}
        /\ other.meta_handed \subseteq {other.requested}
        /\ meta_handed \cap other.meta_handed = {}

C17_Witness ==
    /\ TwoCalls /\ n_replace = 0 /\ other.n_replace = 0
    /\ i_try = 2 /\ other.i_try = 2
    /\ meta_handed = {requested} /\ other.meta_handed = {other.requested}

\* the failed attempts of the running call that were followed by a replacement
LateFailures == {i \in 0..(i_try - 1) : ShouldReplace(i, num_retries)}

\* C21: in test the candidate index is the requested index plus the number
\* of replacements made so far, a failed attempt makes at most one
\* replacement and it advances the candidate by exactly 1, and a returned
\* item serves requested + the number of failed attempts i > num_retries // 2
\* before the success.
C21_CandidateIsProbe ==
    (mode = "test" /\ InCall) =>
        /\ index = requested + n_replace
        /\ pc \in {"try", "decode", "returned"} => n_replace = Cardinality(LateFailures)
        /\ pc = "returned" =>
              /\ ServesIndex(requested + Cardinality(LateFailures))
              /\ decode_call.video_meta = requested + Cardinality(LateFailures)

C21_ProbeStep ==
    (mode = "test" /\ pc \in {"try", "decode"} /\ pc' # "idle") =>
        /\ n_replace' \in {n_replace, n_replace + 1}
        /\ index' = index + (n_replace' - n_replace)
        /\ n_replace' # n_replace =>
              /\ i_try' = i_try + 1
              /\ ShouldReplace(i_try, num_retries)
              /\ n_acquire' + n_decode' > n_acquire + n_decode

EntriesOfLine(k) == {k * num_clips + j : j \in 0..(num_clips - 1)}

\* the (temporal_index, spatial_index) pair the resolver gives entry e in test
TestPair(e) ==
    <<TestTemporalIndex(cfg, At(spatial_temporal_idx, e)),
      TestSpatialIndex(cfg, At(spatial_temporal_idx, e))>>

\* C22: in test every entry resolves to a temporal index in 0..E-1, and with
\* C > 1 the E * C entries of one manifest line resolve to pairwise distinct
\* pairs that are exactly the pairs of 0..E-1 x 0..C-1; a call uses the pair
\* of the entry it was asked for.
C22_TestPairsCoverGrid ==
    (mode = "test" /\ Constructed) =>
        /\ \A e \in 0..(Len(spatial_temporal_idx) - 1) :
              TestPair(e)[1] \in 0..(cfg.NUM_ENSEMBLE_VIEWS - 1)
        /\ cfg.NUM_SPATIAL_CROPS > 1 =>
              \A k \in 0..(Len(manifest) - 1) :
                 /\ EntriesOfLine(k) \subseteq 0..(Len(spatial_temporal_idx) - 1)
                 /\ Cardinality(EntriesOfLine(k)) =
                       cfg.NUM_ENSEMBLE_VIEWS * cfg.NUM_SPATIAL_CROPS
                 /\ \A d, e \in EntriesOfLine(k) : d # e => TestPair(d) # TestPair(e)
                 /\ {TestPair(e) : e \in EntriesOfLine(k)} =
                       (0..(cfg.NUM_ENSEMBLE_VIEWS - 1))
                          \X (0..(cfg.NUM_SPATIAL_CROPS - 1))
        /\ pc \in {"try", "decode", "returned"} =>
              /\ sampling.temporal_sample_index = TestPair(requested)[1]
              /\ sampling.spatial_sample_index = TestPair(requested)[2]
              /\ sampling.temporal_sample_index \in 0..(cfg.NUM_ENSEMBLE_VIEWS - 1)

C22_Witness ==
    /\ mode = "test" /\ pc = "try"
    /\ cfg.NUM_ENSEMBLE_VIEWS = 2 /\ cfg.NUM_SPATIAL_CROPS = 3
    /\ Len(manifest) = 2 /\ requested = 10
    /\ sampling.temporal_sample_index = 1 /\ sampling.spatial_sample_index = 1

\* C23: a step of a call leaves path_to_videos, labels, spatial_temporal_idx
\* and the reported length as they are; a cache slot changes only in a step
\* that invokes the decoder on the candidate index of that slot, so never in
\* an attempt whose acquisition failed and never for an index that was not
\* the candidate; the slots a call can have changed are those in meta_handed.
C23_CallStep ==
    Constructed =>
        /\ path_to_videos' = path_to_videos
        /\ labels' = labels
        /\ spatial_temporal_idx' = spatial_temporal_idx
        /\ num_clips' = num_clips
        /\ DatasetLen(path_to_videos') = DatasetLen(path_to_videos)
        /\ DOMAIN video_meta' = DOMAIN video_meta
        /\ \A k \in DOMAIN video_meta :
              video_meta'[k] # video_meta[k] =>
                 /\ pc = "decode" /\ video_container = "container"
                 /\ n_decode' = n_decode + 1
                 /\ k = index /\ k = tried
                 /\ k \in meta_handed'
                 /\ decode_call'.video_meta = k
        /\ (n_acquire' = n_acquire + 1 /\ video_container' = "None") =>
              video_meta' = video_meta

C23_HandedSlots ==
    InCall =>
        /\ meta_handed \subseteq DOMAIN video_meta
        /\ Cardinality(meta_handed) <= n_decode
        /\ n_decode = 0 => meta_handed = {}
        /\ n_replace = 0 => meta_handed \subseteq {requested}

C23_ManifestUnchanged ==
    /\ []C23_HandedSlots
    /\ [][C23_CallStep]_vars

C23_Witness ==
    /\ pc = "returned" /\ index # requested
    /\ n_acquire > 1 /\ n_decode = 1
    /\ meta_handed = {index}
    /\ video_meta[index] = {"probed"}
    /\ video_meta[requested] = {}
    /\ path_to_videos = [k \in 1..Len(labels) |-> manifest[((k - 1) \div num_clips) + 1].path]

\* C24: a successful attempt dispatches exactly one pipeline: _aug_frame iff
\* mode is train and AUG.ENABLE is set, NUM_SAMPLE times with the list return
\* when NUM_SAMPLE > 1 and once with the scalar return otherwise; the plain
\* pipeline once in every other case, so always in val and test; frames are
\* erased only by _aug_frame and only when RE_PROB > 0; a failed attempt
\* dispatches nothing.
C24_OnePipeline ==
    /\ pc = "returned" =>
          /\ sampling_call.i_try = i_try /\ succeeded = {i_try}
          /\ sampling_call.pipeline \in {"aug_frame", "plain"}
          /\ sampling_call.pipeline = "aug_frame" <=> (mode = "train" /\ cfg.AUG_ENABLE)
          /\ mode \in {"val", "test"} => sampling_call.pipeline = "plain"
          /\ sampling_call.pipeline = "aug_frame" =>
                /\ sampling_call.times =
                      (IF cfg.AUG_NUM_SAMPLE > 1 THEN cfg.AUG_NUM_SAMPLE ELSE 1)
                /\ result.kind = "list" <=> cfg.AUG_NUM_SAMPLE > 1
          /\ sampling_call.pipeline = "plain" =>
                /\ sampling_call.times = 1 /\ result.kind = "scalar"
                /\ ~sampling_call.erase
          /\ result.kind \in {"list", "scalar"}
          /\ Len(result.frames) = sampling_call.times
          /\ sampling_call.erase <=>
                (sampling_call.pipeline = "aug_frame" /\ cfg.AUG_RE_PROB_POSITIVE)
          /\ \A j \in DOMAIN result.frames :
                /\ result.frames[j].pipeline = sampling_call.pipeline
                /\ result.frames[j].erased = sampling_call.erase
    /\ pc \in {"try", "decode", "raised"} => sampling_call = NoSamplingCall
    /\ Constructed =>
          /\ aug <=> (mode = "train" /\ cfg.AUG_ENABLE)
          /\ rand_erase <=> (aug /\ cfg.AUG_RE_PROB_POSITIVE)

C24_Witness ==
    /\ pc = "returned" /\ mode = "train" /\ i_try > 0
    /\ cfg.AUG_ENABLE /\ cfg.AUG_NUM_SAMPLE = 1 /\ cfg.AUG_RE_PROB_POSITIVE
    /\ sampling_call.pipeline = "aug_frame" /\ sampling_call.times = 1
    /\ result.kind = "scalar" /\ result.frames[1].erased

\* the descriptor of a train / val call is resolved
TrainValResolved == mode \in {"train", "val"} /\ pc \in {"try", "decode", "returned"}

\* crop_size is TRAIN_CROP_SIZE unless the request carries phase 0 or 1, then
\* round(SHORT_CYCLE_FACTORS[phase] * DEFAULT_S); max_scale is the upper bound
CropAndMaxScale ==
    /\ sampling.max_scale = cfg.TRAIN_JITTER_SCALES[2]
    /\ short_cycle_idx \notin {<<0>>, <<1>>} => sampling.crop_size = cfg.TRAIN_CROP_SIZE
    /\ short_cycle_idx = <<0>> => sampling.crop_size =
          PyRound(ShortCycleFactors[1][1] * cfg.DEFAULT_S, ShortCycleFactors[1][2])
    /\ short_cycle_idx = <<1>> => sampling.crop_size =
          PyRound(ShortCycleFactors[2][1] * cfg.DEFAULT_S, ShortCycleFactors[2][2])

\* C25: in train / val crop_size and max_scale follow the short-cycle rules,
\* min_scale is the lower jitter bound for a plain integer index, and it is
\* rescaled to round(lower * crop_size / DEFAULT_S) only when the request
\* carries a short-cycle phase.
C25_ShortCycleScales ==
    TrainValResolved =>
        /\ CropAndMaxScale
        /\ short_cycle_idx = NoShortCycle =>
              sampling.min_scale = cfg.TRAIN_JITTER_SCALES[1]
        /\ sampling.min_scale # cfg.TRAIN_JITTER_SCALES[1] =>
              /\ short_cycle_idx # NoShortCycle
              /\ sampling.min_scale =
                    PyRound(cfg.TRAIN_JITTER_SCALES[1] * sampling.crop_size, cfg.DEFAULT_S)

\* C25, amended: min_scale is the lower jitter bound when DEFAULT_S is 0 and
\* round(lower * crop_size / DEFAULT_S) whenever DEFAULT_S > 0, with or
\* without a short-cycle phase in the request; for a plain integer index it
\* is the lower bound if DEFAULT_S is 0 or equals TRAIN_CROP_SIZE.
C25_ScalesByDefaultS ==
    TrainValResolved =>
        /\ CropAndMaxScale
        /\ cfg.DEFAULT_S = 0 => sampling.min_scale = cfg.TRAIN_JITTER_SCALES[1]
        /\ cfg.DEFAULT_S > 0 =>
              sampling.min_scale =
                 PyRound(cfg.TRAIN_JITTER_SCALES[1] * sampling.crop_size, cfg.DEFAULT_S)
        /\ (/\ short_cycle_idx = NoShortCycle
            /\ cfg.DEFAULT_S \in {0, cfg.TRAIN_CROP_SIZE}) =>
              sampling.min_scale = cfg.TRAIN_JITTER_SCALES[1]
        /\ decode_call # NoDecodeCall => decode_call.max_spatial_scale = sampling.min_scale
        /\ pc = "returned" =>
              /\ sampling_call.min_scale = sampling.min_scale
              /\ sampling_call.max_scale = sampling.max_scale
              /\ sampling_call.crop_size = sampling.crop_size

C25_Witness ==
    /\ mode = "val" /\ pc = "returned"
    /\ short_cycle_idx = <<1>>
    /\ cfg.DEFAULT_S = 224 /\ cfg.TRAIN_CROP_SIZE = 112
    /\ sampling_call.crop_size = 158
    /\ sampling_call.min_scale = 181
    /\ sampling_call.max_scale = 320

\* C26: in test the assertion min_scale == max_scale holds for every
\* configuration, with several spatial crops and with one, so a call never
\* ends in the AssertionError and always enters the retry loop.
C26_ScalesEqual ==
    (mode = "test" /\ InCall) =>
        /\ error.type # "AssertionError"
        /\ sampling # NoSampling
        /\ sampling.min_scale = sampling.max_scale
        /\ sampling.min_scale =
              (IF cfg.NUM_SPATIAL_CROPS > 1
               THEN cfg.TEST_CROP_SIZE ELSE cfg.TRAIN_JITTER_SCALES[1])
        /\ decode_call # NoDecodeCall => decode_call.max_spatial_scale = sampling.min_scale
        /\ pc = "returned" => sampling_call.min_scale = sampling_call.max_scale

C26_EntersLoop ==
    (mode = "test" /\ pc = "idle" /\ pc' # "idle") => pc' = "try"

C26_TestAssertionHolds ==
    /\ []C26_ScalesEqual
    /\ [][C26_EntersLoop]_vars

C26_Witness ==
    /\ mode = "test" /\ pc = "returned"
    /\ cfg.NUM_SPATIAL_CROPS = 1 /\ cfg.TEST_CROP_SIZE = 224
    /\ sampling_call.min_scale = 256 /\ sampling_call.max_scale = 256
    /\ sampling_call.crop_size = 224

\* C27: a constructed dataset has path_to_videos, labels and
\* spatial_temporal_idx of one length L > 0 and a metadata cache whose keys
\* are exactly 0..L-1, each an empty record when the constructor returns, so
\* every logical index has a path, a label, a sampling slot and a cache
\* slot; with an empty manifest the constructor fails and no dataset of
\* length 0 exists.
C27_Shape ==
    /\ Constructed =>
          LET L == Len(path_to_videos)
          IN  /\ L > 0 /\ Len(manifest) > 0
              /\ Len(labels) = L
              /\ Len(spatial_temporal_idx) = L
              /\ DatasetLen(path_to_videos) = L
              /\ DOMAIN video_meta = 0..(L - 1)
              /\ \A i \in 0..(L - 1) :
                    /\ InRange(path_to_videos, i) /\ InRange(labels, i)
                    /\ InRange(spatial_temporal_idx, i)
                    /\ i \in DOMAIN video_meta
    /\ (Len(manifest) = 0 /\ pc # "new") =>
          /\ pc = "construct_failed"
          /\ error.type \in {"AssertionError", "AttributeError"}
          /\ Len(path_to_videos) = 0 /\ requested = -1

C27_ConstructStep ==
    (pc = "new" /\ pc' # "new") =>
        IF Len(manifest) > 0 /\ mode \in SupportedModes
        THEN /\ pc' = "idle"
             /\ \A k \in DOMAIN video_meta' : video_meta'[k] = {}
        ELSE pc' = "construct_failed" /\ video_meta' = video_meta

C27_ConstructedShape ==
    /\ []C27_Shape
    /\ [][C27_ConstructStep]_vars

C27_Witness ==
    /\ pc = "idle" /\ mode = "test"
    /\ Len(manifest) = 2 /\ num_clips = 4
    /\ Len(labels) = 8 /\ Len(spatial_temporal_idx) = 8
    /\ DOMAIN video_meta = 0..7
    /\ \A k \in 0..7 : video_meta[k] = {}
====
